---- MODULE Spec2Model ----
(***************************************************************************)
(* Chunked upload back end of nodejuploader (back/app.js, back/server.js). *)
(*                                                                         *)
(* The state is the shared upload directory (one chunk directory, one      *)
(* <fid>.bin blob and one <fid>.meta.json marker per transfer), the        *)
(* GET /upload handlers in flight and the assembleFile calls they start.   *)
(* Every await of the source is a step boundary: between two awaits of one *)
(* handler any step of another handler or assembly may run (one process    *)
(* interleaves them on its event loop, and the deployment runs several     *)
(* replicas on one shared volume).                                         *)
(*                                                                         *)
(* Abstractions: SHA-256 is an injective function of the bytes it digests  *)
(* (no collisions); a request's d is held as the bytes it decodes to;      *)
(* fs.remove of a directory and fs.writeJson are single steps.             *)
(*                                                                         *)
(* Specifications: Spec (chunk requests and assemblies), SpecRead (the     *)
(* uploads of a client with GET /status and GET /file requests at any      *)
(* time), SpecInput (chunk requests with their query string as received,   *)
(* through validation, parsing and decoding), SpecFail (Spec with failing *)
(* chunk writes and chunk reads), SpecSweep and SpecSweepFail (uploads,    *)
(* days passing and the hourly cleanup job, whose fs calls may fail in the *)
(* second), SpecCase (digests declared in either letter case), SpecFront   *)
(* (uploadFile of the front end against any server answers), SpecHash      *)
(* (calculateFileHash of the front end), SpecSort (the order in which     *)
(* assembleFile writes the chunk files it lists) and SpecPath (identifiers *)
(* as the query gives them, through path.join). An entry's age is kept as  *)
(* one bit, older than 24 hours or not.                                    *)
(***************************************************************************)
EXTENDS Integers, Sequences, FiniteSets, TLC

\* ------------------------------------------------------------------ bounds
\* Number of GET /upload requests of one behaviour.
MaxHandlers == 2
\* Number of status polls of one uploadFile call.
MaxPolls == 3
\* Number of whole 2 MiB chunks of the files hashed.
MaxWholeChunks == 4
\* Number of chunks of the transfers whose chunk names are sorted.
MaxChunks == 12

\* ------------------------------------------------------------------ inputs
Handlers == 1..MaxHandlers
Fids == {"f1", "f2"}
Indices == {0, 1}
Totals == {1, 2}
Payloads == {<<"a">>, <<"b">>}

\* The file a well-behaved client uploads, and its chunk i.
File(t) == SubSeq(<<"a", "b">>, 1, t)
Chunk(i) == <<(<<"a", "b">>)[i + 1]>>

\* hash.digest('hex'): lower-case hex of an injective digest of the bytes.
Sha256Hex(bytes) == [of |-> bytes, upper |-> FALSE]

\* The digest a client declares: that of the file of the size it declares.
DeclaredDigest(t) == Sha256Hex(File(t))

VARIABLES
    dir,       \* dir[f]: the chunk directory UPLOAD_DIR/<f> exists
    chunks,    \* chunks[f]: index -> bytes of UPLOAD_DIR/<f>/<index>.part
    bin,       \* bin[f]: [exists, data] of UPLOAD_DIR/<f>.bin
    meta,      \* meta[f]: UPLOAD_DIR/<f>.meta.json exists
    handler,   \* handler[h]: one GET /upload request and its position
    att,       \* att[h]: the assembleFile call started by handler h
    fidsInUse, \* the transfer identifiers the clients of this behaviour use
    reader,    \* reader[p]: one GET /status or GET /file request
    query,     \* query[h]: the query string request h arrived with
    stale,     \* stale[f][e]: entry e of transfer f was last modified more
               \* than 24 hours ago
    sweep,     \* the run of the hourly cleanup job
    front      \* the browser side: one uploadFile or calculateFileHash call

vars ==
    <<dir, chunks, bin, meta, handler, att, fidsInUse, reader, query, stale, sweep, front>>
fsVars == <<dir, chunks, bin, meta>>

NoChunks == [i \in {} |-> <<>>]
NoBin == [exists |-> FALSE, data |-> <<>>]
NoReq == [fid |-> "f1", i |-> 0, t |-> 1, h |-> Sha256Hex(<<>>), d |-> <<>>]
IdleHandler == [pc |-> "idle", req |-> NoReq, resp |-> "none", fd |-> FALSE, seen |-> {}]
NoAttempt ==
    [pc |-> "none", fid |-> "f1", total |-> 0, hash |-> Sha256Hex(<<>>),
     files |-> <<>>, bufs |-> <<>>, rd |-> "reading", opened |-> FALSE,
     fd |-> FALSE, w |-> 0, outcome |-> "none", conc |-> FALSE, swept |-> FALSE]

Requests(fs) ==
    {[fid |-> f, i |-> i, t |-> t, h |-> DeclaredDigest(t), d |-> d] :
        f \in fs, i \in Indices, t \in Totals, d \in Payloads}

InFlight(h) == handler[h].pc \notin {"idle", "done"}

\* What the path-existence tests of GET /status and GET /file can see of
\* transfer f: whether its directory, its artifact and its marker exist.
Snapshot(f) == [dir |-> dir[f], bin |-> bin[f].exists, meta |-> meta[f]]
NoSnapshot == [dir |-> FALSE, bin |-> FALSE, meta |-> FALSE]

\* The client that polls GET /status and downloads: its requests follow one
\* another (upload.ts, lines 80-97), so one slot holds the current one.
Readers == {"poller"}
\* snap and stable are kept for the properties only: the storage of the
\* transfer when the request arrived (for GET /file: when it was served),
\* and whether every test of the request saw that same storage.
IdleReader ==
    [pc |-> "idle", kind |-> "status", fid |-> "f1", resp |-> "none",
     body |-> <<>>, snap |-> NoSnapshot, stable |-> TRUE]

\* A query parameter as Express hands it over: absent (undefined), or the
\* text of its value, a sequence of characters. fid and h are opaque here:
\* their value is the identifier or the digest itself.
Absent == [present |-> FALSE, value |-> <<>>]
Given(v) == [present |-> TRUE, value |-> v]
NoQuery == [fid |-> Absent, i |-> Absent, t |-> Absent, h |-> Absent, d |-> Absent]

IndexTexts == {<<"0">>, <<"-", "1">>, <<"1", "x">>, <<"x">>}
TotalTexts == {<<"1">>, <<"2">>, <<"0">>, <<"x">>}
\* '' (no bytes) and 'YQ' (the byte a) in base64url.
PayloadTexts == {<<>>, <<"Y", "Q">>}

\* The entries of UPLOAD_DIR a transfer owns: its chunk directory, its
\* artifact <fid>.bin and its marker <fid>.meta.json. An entry that is
\* created, or whose content changes (for a directory: a name entered or
\* removed), has the time of the change as its last-modified time.
EntryKinds == {"dir", "bin", "meta"}
NoneStale == [f \in Fids |-> [e \in EntryKinds |-> FALSE]]
Touched(f, e) == [stale EXCEPT ![f][e] = FALSE]

\* todo: the listed entries still to examine; cur and foundOld: the entry
\* of the last fs.stat and what the age test found for it.
NoSweep == [pc |-> "idle", todo |-> {}, cur |-> <<"f1", "dir">>, foundOld |-> FALSE]
NoFront == [pc |-> "none"]

\* ------------------------------------------------------------ pure helpers
RECURSIVE Concat(_)
Concat(bufs) ==
    IF bufs = <<>> THEN <<>> ELSE Head(bufs) \o Concat(Tail(bufs))

\* files.sort((a, b) => parseInt(a) - parseInt(b)) over the names "<i>.part".
RECURSIVE SortByIndex(_)
SortByIndex(S) ==
    IF S = {} THEN <<>>
    ELSE LET m == CHOOSE x \in S : \A y \in S : x <= y
         IN <<m>> \o SortByIndex(S \ {m})

\* A write of buf at byte offset off into a file holding data: bytes between
\* the end of the file and the offset read as zero bytes; a write of no bytes
\* changes nothing.
WriteAt(data, off, buf) ==
    LET n == IF Len(data) > off + Len(buf) THEN Len(data) ELSE off + Len(buf)
    IN IF buf = <<>> THEN data
       ELSE [p \in 1..n |->
               IF p > off /\ p <= off + Len(buf) THEN buf[p - off]
               ELSE IF p <= Len(data) THEN data[p]
               ELSE "0"]

\* ------------------------------------------------------------------- Init
Init ==
    /\ dir = [f \in Fids |-> FALSE]
    /\ chunks = [f \in Fids |-> NoChunks]
    /\ bin = [f \in Fids |-> NoBin]
    /\ meta = [f \in Fids |-> FALSE]
    /\ handler = [h \in Handlers |-> IdleHandler]
    /\ att = [h \in Handlers |-> NoAttempt]
    /\ fidsInUse = {"f1"}
    /\ reader = [p \in Readers |-> IdleReader]
    /\ query = [h \in Handlers |-> NoQuery]
    /\ stale = NoneStale
    /\ sweep = NoSweep
    /\ front = NoFront

\* ------------------------------------------------------------ GET /upload
\* Lines 40-55: the request arrives, is parsed and validated, and
\* await fs.ensureDir(fileDir) creates the chunk directory when it is missing.
\* Requests are numbered in their order of arrival.
Receive(h) ==
    /\ handler[h].pc = "idle"
    /\ IF h = 1 THEN TRUE ELSE handler[h - 1].pc # "idle"
    /\ \E r \in Requests(fidsInUse) :
         /\ handler' = [handler EXCEPT ![h] =
               [pc |-> "open", req |-> r, resp |-> "none", fd |-> FALSE,
                seen |-> {g \in Handlers : InFlight(g)}]]
         /\ dir' = [dir EXCEPT ![r.fid] = TRUE]
         /\ stale' = IF dir[r.fid] THEN stale ELSE Touched(r.fid, "dir")
    /\ UNCHANGED <<chunks, bin, meta, att, fidsInUse, reader, query, sweep, front>>

\* OpenChunk as it would be with flag 'w' in place of 'wx': an existing chunk
\* file is truncated and written again.
OpenChunkNotExclusive(h) ==
    LET r == handler[h].req IN
    /\ handler[h].pc = "open"
    /\ IF ~dir[r.fid]
       THEN /\ handler' = [handler EXCEPT ![h].pc = "done", ![h].resp = "error500"]
            /\ UNCHANGED <<chunks, stale>>
       ELSE /\ chunks' = [chunks EXCEPT ![r.fid] =
                    [j \in DOMAIN chunks[r.fid] \cup {r.i} |->
                        IF j = r.i THEN <<>> ELSE chunks[r.fid][j]]]
            /\ stale' = IF r.i \in DOMAIN chunks[r.fid] THEN stale
                        ELSE Touched(r.fid, "dir")
            /\ handler' = [handler EXCEPT ![h].pc = "write", ![h].fd = TRUE]
    /\ UNCHANGED <<dir, bin, meta, att, fidsInUse, reader, query, sweep, front>>

\* OpenChunk as it would be if a request whose chunk exists went on to the
\* completion check before it is answered.
OpenChunkCheckingOnExists(h) ==
    LET r == handler[h].req IN
    /\ handler[h].pc = "open"
    /\ IF ~dir[r.fid]
       THEN /\ handler' = [handler EXCEPT ![h].pc = "done", ![h].resp = "error500"]
            /\ UNCHANGED <<chunks, stale, att>>
       ELSE IF r.i \in DOMAIN chunks[r.fid]
       THEN /\ handler' = [handler EXCEPT ![h].pc = "done", ![h].resp = "exists"]
            /\ att' = IF Cardinality(DOMAIN chunks[r.fid]) = r.t
                      THEN [att EXCEPT ![h] =
                              [NoAttempt EXCEPT !.pc = "list", !.fid = r.fid,
                                                !.total = r.t, !.hash = r.h]]
                      ELSE att
            /\ UNCHANGED <<chunks, stale>>
       ELSE /\ chunks' = [chunks EXCEPT ![r.fid] =
                    [j \in DOMAIN chunks[r.fid] \cup {r.i} |->
                        IF j = r.i THEN <<>> ELSE chunks[r.fid][j]]]
            /\ stale' = Touched(r.fid, "dir")
            /\ handler' = [handler EXCEPT ![h].pc = "write", ![h].fd = TRUE]
            /\ UNCHANGED att
    /\ UNCHANGED <<dir, bin, meta, fidsInUse, reader, query, sweep, front>>

\* Line 63, first half: fs.writeFile(..., {flag: 'wx'}) opens the chunk file
\* with O_CREAT | O_EXCL. EEXIST is answered 202 'exists'; any other failure
\* (here ENOENT, the directory is gone) reaches the outer catch: 500.
OpenChunk(h) ==
    LET r == handler[h].req IN
    /\ handler[h].pc = "open"
    /\ IF ~dir[r.fid]
       THEN /\ handler' = [handler EXCEPT ![h].pc = "done", ![h].resp = "error500"]
            /\ UNCHANGED <<chunks, stale>>
       ELSE IF r.i \in DOMAIN chunks[r.fid]
       THEN /\ handler' = [handler EXCEPT ![h].pc = "done", ![h].resp = "exists"]
            /\ UNCHANGED <<chunks, stale>>
       ELSE /\ chunks' = [chunks EXCEPT ![r.fid] =
                    [j \in DOMAIN chunks[r.fid] \cup {r.i} |->
                        IF j = r.i THEN <<>> ELSE chunks[r.fid][j]]]
            /\ stale' = Touched(r.fid, "dir")
            /\ handler' = [handler EXCEPT ![h].pc = "write", ![h].fd = TRUE]
    /\ UNCHANGED <<dir, bin, meta, att, fidsInUse, reader, query, sweep, front>>

\* Line 63, second half: the buffer is written through the open descriptor
\* and the descriptor is closed. A descriptor whose file was unlinked
\* meanwhile writes to a file no path names.
WriteChunk(h) ==
    LET r == handler[h].req IN
    /\ handler[h].pc = "write"
    /\ chunks' = IF handler[h].fd
                 THEN [chunks EXCEPT ![r.fid][r.i] = r.d]
                 ELSE chunks
    /\ handler' = [handler EXCEPT ![h].pc = "readdir", ![h].fd = FALSE]
    /\ UNCHANGED <<dir, bin, meta, att, fidsInUse, reader, query, stale, sweep, front>>

\* StartAssembly as it would be if the total and digest of the first request
\* received were kept and used.
StartAssemblyWithFirstDeclared(r) ==
    [NoAttempt EXCEPT !.pc = "list", !.fid = r.fid,
                      !.total = handler[1].req.t, !.hash = handler[1].req.h]

\* Line 76: assembleFile(fid, totalChunks, h) with the values of this request.
StartAssembly(r) ==
    [NoAttempt EXCEPT !.pc = "list", !.fid = r.fid, !.total = r.t, !.hash = r.h]

\* CheckComplete as it would be if assembly were started by the chunk of
\* the highest index (i = t - 1) instead of by the count.
CheckCompleteOnLastIndex(h) ==
    LET r == handler[h].req IN
    /\ handler[h].pc = "readdir"
    /\ IF ~dir[r.fid]
       THEN /\ handler' = [handler EXCEPT ![h].pc = "done", ![h].resp = "error500"]
            /\ UNCHANGED att
       ELSE /\ handler' = [handler EXCEPT ![h].pc = "done", ![h].resp = "new"]
            /\ att' = IF r.i = r.t - 1
                      THEN [att EXCEPT ![h] = StartAssembly(r)]
                      ELSE att
    /\ UNCHANGED <<fsVars, fidsInUse, reader, query, stale, sweep, front>>

\* Lines 73-79: the directory is listed; when it holds totalChunks entries
\* assembleFile is started (not awaited), and the chunk is acknowledged.
CheckComplete(h) ==
    LET r == handler[h].req IN
    /\ handler[h].pc = "readdir"
    /\ IF ~dir[r.fid]
       THEN /\ handler' = [handler EXCEPT ![h].pc = "done", ![h].resp = "error500"]
            /\ UNCHANGED att
       ELSE /\ handler' = [handler EXCEPT ![h].pc = "done", ![h].resp = "new"]
            /\ att' = IF Cardinality(DOMAIN chunks[r.fid]) = r.t
                      THEN [att EXCEPT ![h] = StartAssembly(r)]
                      ELSE att
    /\ UNCHANGED <<fsVars, fidsInUse, reader, query, stale, sweep, front>>

\* ------------------------------------------------------------ assembleFile
\* conc records, for the properties only, that an assembly ran while another
\* assembly of the same transfer was running, and swept that the cleanup job
\* removed the chunk directory while the assembly was running.
Running(a, f) == att[a].fid = f /\ att[a].pc \in {"run", "rmdir"}

\* AsmList as it would be if an attempt that finds another count than its
\* total removed the chunk directory before it returns.
AsmListCleaningUp(a) ==
    LET f == att[a].fid
        others == {b \in Handlers \ {a} : Running(b, f)}
        short == dir[f] /\ Cardinality(DOMAIN chunks[f]) # att[a].total
    IN
    /\ att[a].pc = "list"
    /\ att' =
         IF ~dir[f]
         THEN [att EXCEPT ![a].pc = "done", ![a].outcome = "ioError"]
         ELSE IF short
         THEN [att EXCEPT ![a].pc = "done", ![a].outcome = "incomplete"]
         ELSE [b \in Handlers |->
                 IF b = a
                 THEN [att[a] EXCEPT !.pc = "run",
                                     !.files = SortByIndex(DOMAIN chunks[f]),
                                     !.conc = others # {}]
                 ELSE IF b \in others THEN [att[b] EXCEPT !.conc = TRUE]
                 ELSE att[b]]
    /\ dir' = IF short THEN [dir EXCEPT ![f] = FALSE] ELSE dir
    /\ chunks' = IF short THEN [chunks EXCEPT ![f] = NoChunks] ELSE chunks
    /\ UNCHANGED <<bin, meta, handler, fidsInUse, reader, query, stale, sweep, front>>

\* Lines 141-149: the directory is listed again and counted; the names are
\* sorted and the write stream on <fid>.bin is created.
AsmList(a) ==
    LET f == att[a].fid
        others == {b \in Handlers \ {a} : Running(b, f)}
    IN
    /\ att[a].pc = "list"
    /\ att' =
         IF ~dir[f]
         THEN [att EXCEPT ![a].pc = "done", ![a].outcome = "ioError"]
         ELSE IF Cardinality(DOMAIN chunks[f]) # att[a].total
         THEN [att EXCEPT ![a].pc = "done", ![a].outcome = "incomplete"]
         ELSE [b \in Handlers |->
                 IF b = a
                 THEN [att[a] EXCEPT !.pc = "run",
                                     !.files = SortByIndex(DOMAIN chunks[f]),
                                     !.conc = others # {}]
                 ELSE IF b \in others THEN [att[b] EXCEPT !.conc = TRUE]
                 ELSE att[b]]
    /\ UNCHANGED <<fsVars, handler, fidsInUse, reader, query, stale, sweep, front>>

\* Line 149: the stream opens <fid>.bin with flag 'w': the file is created,
\* or truncated when it exists. The open completes at any time after
\* createWriteStream returned.
AsmOpen(a) ==
    LET f == att[a].fid IN
    /\ att[a].pc = "run"
    /\ ~att[a].opened
    /\ bin' = [bin EXCEPT ![f] = [exists |-> TRUE, data |-> <<>>]]
    /\ stale' = Touched(f, "bin")
    /\ att' = [att EXCEPT ![a].opened = TRUE, ![a].fd = TRUE]
    /\ UNCHANGED <<dir, chunks, meta, handler, fidsInUse, reader, query, sweep, front>>

\* Lines 152-157: await fs.readFile of the next chunk; the buffer is queued
\* on the stream and fed to the hash. After the last chunk, line 159 ends
\* the stream. A failed read rejects assembleFile (logged by the caller's
\* catch); the stream stays open and is never ended.
AsmRead(a) ==
    LET f == att[a].fid
        k == Len(att[a].bufs) + 1
        i == att[a].files[k]
    IN
    /\ att[a].pc = "run"
    /\ att[a].rd = "reading"
    /\ att' = [att EXCEPT ![a] =
         IF ~dir[f] \/ i \notin DOMAIN chunks[f]
         THEN [@ EXCEPT !.rd = "aborted", !.outcome = "ioError"]
         ELSE [@ EXCEPT !.bufs = Append(@, chunks[f][i]),
                        !.rd = IF k = Len(att[a].files) THEN "ended" ELSE "reading"]]
    /\ UNCHANGED <<fsVars, handler, fidsInUse, reader, query, stale, sweep, front>>

\* The stream writes its next queued buffer at its own file position.
AsmWrite(a) ==
    LET f == att[a].fid
        off == Len(Concat(SubSeq(att[a].bufs, 1, att[a].w)))
    IN
    /\ att[a].pc = "run"
    /\ att[a].opened
    /\ att[a].w < Len(att[a].bufs)
    /\ bin' = IF att[a].fd
              THEN [bin EXCEPT ![f].data = WriteAt(@, off, att[a].bufs[att[a].w + 1])]
              ELSE bin
    /\ stale' = IF att[a].fd /\ att[a].bufs[att[a].w + 1] # <<>>
                THEN Touched(f, "bin") ELSE stale
    /\ att' = [att EXCEPT ![a].w = @ + 1]
    /\ UNCHANGED <<dir, chunks, meta, handler, fidsInUse, reader, query, sweep, front>>

\* Removing <fid>.bin unlinks the file every open stream of it writes to.
UnlinkBin(f) ==
    [a \in Handlers |->
        IF att[a].fid = f /\ att[a].pc # "none" THEN [att[a] EXCEPT !.fd = FALSE]
        ELSE att[a]]

\* AsmFinish as it would be if the marker were written whatever the digest.
AsmFinishWithoutDigestTest(a) ==
    LET f == att[a].fid IN
    /\ att[a].pc = "run"
    /\ att[a].rd = "ended"
    /\ att[a].opened
    /\ att[a].w = Len(att[a].bufs)
    /\ meta' = [meta EXCEPT ![f] = TRUE]
    /\ stale' = Touched(f, "meta")
    /\ att' = [att EXCEPT ![a].pc = "rmdir", ![a].outcome = "ready"]
    /\ UNCHANGED <<bin, dir, chunks, handler, fidsInUse, reader, query, sweep, front>>

\* Lines 161-170, first await of the 'finish' handler: the digest of the
\* bytes read is compared with the expected one; on a match the marker is
\* written, otherwise <fid>.bin is removed.
AsmFinish(a) ==
    LET f == att[a].fid IN
    /\ att[a].pc = "run"
    /\ att[a].rd = "ended"
    /\ att[a].opened
    /\ att[a].w = Len(att[a].bufs)
    /\ IF Sha256Hex(Concat(att[a].bufs)) = att[a].hash
       THEN /\ meta' = [meta EXCEPT ![f] = TRUE]
            /\ stale' = Touched(f, "meta")
            /\ att' = [att EXCEPT ![a].pc = "rmdir", ![a].outcome = "ready"]
            /\ UNCHANGED bin
       ELSE /\ bin' = [bin EXCEPT ![f] = NoBin]
            /\ stale' = Touched(f, "bin")
            /\ att' = [UnlinkBin(f) EXCEPT ![a].pc = "rmdir", ![a].outcome = "mismatch",
                                           ![a].fd = FALSE]
            /\ UNCHANGED meta
    /\ UNCHANGED <<dir, chunks, handler, fidsInUse, reader, query, sweep, front>>

\* Lines 166 and 170: await fs.remove(fileDir). Chunk files still being
\* written are unlinked with the directory.
AsmRemoveDir(a) ==
    LET f == att[a].fid IN
    /\ att[a].pc = "rmdir"
    /\ dir' = [dir EXCEPT ![f] = FALSE]
    /\ chunks' = [chunks EXCEPT ![f] = NoChunks]
    /\ handler' = [h \in Handlers |->
          IF handler[h].req.fid = f /\ handler[h].pc = "write"
          THEN [handler[h] EXCEPT !.fd = FALSE] ELSE handler[h]]
    /\ stale' = Touched(f, "dir")
    /\ att' = [att EXCEPT ![a].pc = "done"]
    /\ UNCHANGED <<bin, meta, fidsInUse, reader, query, sweep, front>>

\* An assembly whose reads failed ends once its stream has nothing queued.
AsmAbort(a) ==
    /\ att[a].pc = "run"
    /\ att[a].rd = "aborted"
    /\ att[a].opened
    /\ att[a].w = Len(att[a].bufs)
    /\ att' = [att EXCEPT ![a].pc = "done"]
    /\ UNCHANGED <<fsVars, handler, fidsInUse, reader, query, stale, sweep, front>>

\* ------------------------------------------------------------ GET /status
\* Lines 95-109.
Status(f) ==
    IF bin[f].exists /\ meta[f] THEN "ready"
    ELSE IF dir[f] THEN "uploading_or_assembling"
    ELSE "not_found"

\* ------------------------------------------------------------------- Next
Next ==
    \/ \E h \in Handlers : Receive(h)
    \/ \E h \in Handlers : OpenChunk(h)
    \/ \E h \in Handlers : WriteChunk(h)
    \/ \E h \in Handlers : CheckComplete(h)
    \/ \E a \in Handlers : AsmList(a)
    \/ \E a \in Handlers : AsmOpen(a)
    \/ \E a \in Handlers : AsmRead(a)
    \/ \E a \in Handlers : AsmWrite(a)
    \/ \E a \in Handlers : AsmFinish(a)
    \/ \E a \in Handlers : AsmRemoveDir(a)
    \/ \E a \in Handlers : AsmAbort(a)

Spec == Init /\ [][Next]_vars

\* ------------------------------------------------------------- properties
Arrived(h) == handler[h].pc # "idle"

\* No handler that arrived and no assembly is still running.
Quiescent ==
    /\ \A h \in Handlers : handler[h].pc \in {"idle", "done"}
    /\ \A a \in Handlers : att[a].pc \in {"none", "done"}

\* The requests received so far are those of a client uploading File(t) as
\* transfer f: chunk i carries Chunk(i) and every request declares t and the
\* digest of File(t).
WellFormed(f, t) ==
    \A h \in Handlers : Arrived(h) =>
        /\ handler[h].req.fid = f
        /\ handler[h].req.t = t
        /\ handler[h].req.i < t
        /\ handler[h].req.d = Chunk(handler[h].req.i)
        /\ handler[h].req.h = Sha256Hex(File(t))

\* ... and every chunk of File(t) has been sent.
UploadOf(f, t) ==
    /\ WellFormed(f, t)
    /\ \A i \in 0..(t - 1) : \E h \in Handlers : Arrived(h) /\ handler[h].req.i = i

\* The bytes some assembly of f digested and found to match.
Verified(f) ==
    {Concat(att[a].bufs) : a \in {b \in Handlers :
        att[b].fid = f /\ att[b].outcome = "ready"}}

\* C1: whenever GET /status answers ready for a transfer (here one that a
\* client uploads correctly), its <fid>.bin holds exactly the bytes an
\* assembly of that transfer concatenated from all its chunks and found to
\* match the expected digest.
C1_ReadyOnlyOverVerifiedArtifact ==
    \A f \in Fids, t \in Totals :
        (WellFormed(f, t) /\ Status(f) = "ready") => bin[f].data \in Verified(f)

\* C2: once every handler and assembly of a correct upload of File(t) has
\* finished, the artifact that exists holds File(t).
C2_FinalArtifactIsConcatenation ==
    \A f \in Fids, t \in Totals :
        (Quiescent /\ UploadOf(f, t) /\ bin[f].exists) => bin[f].data = File(t)

\* C3: when assemblies of a correct upload ran concurrently, they end with
\* the artifact absent or equal to File(t).
C3_ConcurrentAssembliesDoNotCorrupt ==
    \A f \in Fids, t \in Totals :
        (/\ Quiescent
         /\ UploadOf(f, t)
         /\ \E a \in Handlers : att[a].fid = f /\ att[a].conc)
        => (~bin[f].exists \/ bin[f].data = File(t))

\* C4: of the assemblies of one transfer that run concurrently at most one
\* writes the artifact and publishes readiness.
C4_AssembledExactlyOnce ==
    \A a, b \in Handlers :
        (/\ a # b
         /\ \E t \in Totals : WellFormed(att[a].fid, t)
         /\ att[a].fid = att[b].fid
         /\ att[a].conc /\ att[b].conc)
        => ~(att[a].outcome = "ready" /\ att[b].outcome = "ready")

\* C5: when every chunk of a correct upload has been accepted and no
\* assembly met an I/O failure, the transfer is ready once handlers and
\* assemblies have run to their end.
C5_AcceptedUploadBecomesReady ==
    \A f \in Fids, t \in Totals :
        (/\ Quiescent
         /\ UploadOf(f, t)
         /\ \A h \in Handlers : Arrived(h) => handler[h].resp \in {"new", "exists"}
         /\ \A a \in Handlers : att[a].outcome # "ioError")
        => Status(f) = "ready"

\* C6: when the assemblies of a transfer have finished and one of them found
\* a digest mismatch (none a match), neither <fid>.bin nor the chunk
\* directory exists and GET /status answers not_found. Here every request
\* received declares the same total and started an assembly that found the
\* directory complete, so no chunk arrived after the cleanup.
C6_MismatchLeavesNothing ==
    \A f \in Fids, t \in Totals :
        (/\ Quiescent
         /\ \A h \in Handlers : Arrived(h) =>
               /\ handler[h].req.fid = f
               /\ handler[h].req.t = t
               /\ att[h].files # <<>>
         /\ \E a \in Handlers : att[a].outcome = "mismatch"
         /\ \A a \in Handlers : att[a].outcome # "ready")
        => (~bin[f].exists /\ ~dir[f] /\ Status(f) = "not_found")

\* C7: a step of a GET /upload handler taken while the blob of its
\* (transfer, index) is stored, whatever payload the request carries, leaves
\* every chunk, directory, artifact and marker as it was and starts no
\* assembly; its exclusive create answers 202 'exists'.
C7_DuplicateChunkIsNoOp ==
    [][\A h \in Handlers :
         LET r == handler'[h].req IN
         (/\ handler'[h] # handler[h]
          /\ handler[h].pc \in {"idle", "open"}
          /\ r.i \in DOMAIN chunks[r.fid])
         => (/\ fsVars' = fsVars
             /\ att' = att
             /\ handler[h].pc = "open" =>
                   handler'[h].pc = "done" /\ handler'[h].resp = "exists")]_vars

\* A duplicate carrying other bytes than the stored ones was answered 'exists'.
C7_Witness ==
    \E h \in Handlers :
        LET r == handler[h].req IN
        /\ handler[h].resp = "exists"
        /\ r.i \in DOMAIN chunks[r.fid]
        /\ chunks[r.fid][r.i] # <<>>
        /\ chunks[r.fid][r.i] # r.d

\* C8: of two requests for the same (transfer, index) that were in flight
\* together, both are acknowledged (as new or as existing) and not both as
\* new, and a stored blob holds the payload of the one acknowledged as new.
C8_OneWinnerAmongConcurrentWriters ==
    \A h \in Handlers : \A g \in handler[h].seen :
        LET r == handler[h].req
            q == handler[g].req
        IN (/\ r.fid = q.fid /\ r.i = q.i
            /\ handler[h].pc = "done" /\ handler[g].pc = "done")
           => /\ handler[h].resp \in {"new", "exists"}
              /\ handler[g].resp \in {"new", "exists"}
              /\ ~(handler[h].resp = "new" /\ handler[g].resp = "new")

NeverCleaned(f) ==
    \A a \in Handlers : att[a].fid = f => att[a].outcome \notin {"ready", "mismatch"}

\* C10 as claimed: the total and digest an assembly is started with are
\* those declared by the first chunk request received for the transfer.
\* (Request 1 is the first one received; here its chunk was accepted as new
\* and its directory has not been cleaned up since.)
C10_FirstDeclaredMetadataIsUsed ==
    \A h \in Handlers :
        (/\ att[h].pc # "none"
         /\ handler[1].resp = "new"
         /\ handler[1].req.fid = att[h].fid
         /\ NeverCleaned(att[h].fid))
        => (att[h].total = handler[1].req.t /\ att[h].hash = handler[1].req.h)

\* C10 as amended: the total and digest an assembly is started with are
\* those of the request whose directory listing started it.
C10_TriggeringRequestMetadataIsUsed ==
    \A h \in Handlers :
        att[h].pc # "none"
        => (/\ att[h].fid = handler[h].req.fid
            /\ att[h].total = handler[h].req.t
            /\ att[h].hash = handler[h].req.h)

\* An assembly runs with a total other than the one the first request,
\* accepted as new, declared.
C10_Witness ==
    \E h \in Handlers :
        /\ att[h].pc # "none"
        /\ handler[1].resp = "new"
        /\ handler[1].req.fid = att[h].fid
        /\ att[h].total # handler[1].req.t
        /\ NeverCleaned(att[h].fid)

\* ------------------------------------------------ GET /status as a handler
\* Lines 92-96: a status request for transfer f arrives.
StatusArrive(p) ==
    /\ reader[p].pc \in {"idle", "done"}
    /\ \E f \in fidsInUse :
         reader' = [reader EXCEPT ![p] =
             [IdleReader EXCEPT !.pc = "bin", !.kind = "status", !.fid = f,
                                !.snap = Snapshot(f)]]
    /\ UNCHANGED <<fsVars, handler, att, fidsInUse, query, stale, sweep, front>>

\* Line 98, left operand: await fs.pathExists(finalPath).
StatusCheckBin(p) ==
    LET f == reader[p].fid IN
    /\ reader[p].kind = "status"
    /\ reader[p].pc = "bin"
    /\ reader' = [reader EXCEPT
          ![p].pc = IF bin[f].exists THEN "meta" ELSE "dir",
          ![p].stable = @ /\ Snapshot(f) = reader[p].snap]
    /\ UNCHANGED <<fsVars, handler, att, fidsInUse, query, stale, sweep, front>>

\* StatusCheckMeta as it would be if the artifact alone decided: the marker
\* is not looked at.
StatusCheckMetaSkipped(p) ==
    LET f == reader[p].fid IN
    /\ reader[p].kind = "status"
    /\ reader[p].pc = "meta"
    /\ reader' = [reader EXCEPT
          ![p].pc = "done", ![p].resp = "ready",
          ![p].stable = @ /\ Snapshot(f) = reader[p].snap]
    /\ UNCHANGED <<fsVars, handler, att, fidsInUse, query, stale, sweep, front>>

\* Line 98, right operand, and line 99: await fs.pathExists(metaPath).
StatusCheckMeta(p) ==
    LET f == reader[p].fid IN
    /\ reader[p].kind = "status"
    /\ reader[p].pc = "meta"
    /\ reader' = [reader EXCEPT
          ![p].pc = IF meta[f] THEN "done" ELSE "dir",
          ![p].resp = IF meta[f] THEN "ready" ELSE @,
          ![p].stable = @ /\ Snapshot(f) = reader[p].snap]
    /\ UNCHANGED <<fsVars, handler, att, fidsInUse, query, stale, sweep, front>>

\* StatusCheckDir as it would be with fs.ensureDir in place of
\* fs.pathExists: a missing directory is created.
StatusCheckDirCreating(p) ==
    LET f == reader[p].fid IN
    /\ reader[p].kind = "status"
    /\ reader[p].pc = "dir"
    /\ dir' = [dir EXCEPT ![f] = TRUE]
    /\ stale' = IF dir[f] THEN stale ELSE Touched(f, "dir")
    /\ reader' = [reader EXCEPT
          ![p].pc = "done", ![p].resp = "uploading_or_assembling",
          ![p].stable = @ /\ Snapshot(f) = reader[p].snap]
    /\ UNCHANGED <<chunks, bin, meta, handler, att, fidsInUse, query, sweep, front>>

\* Lines 103-109: await fs.pathExists(fileDir).
StatusCheckDir(p) ==
    LET f == reader[p].fid IN
    /\ reader[p].kind = "status"
    /\ reader[p].pc = "dir"
    /\ reader' = [reader EXCEPT
          ![p].pc = "done",
          ![p].resp = IF dir[f] THEN "uploading_or_assembling" ELSE "not_found",
          ![p].stable = @ /\ Snapshot(f) = reader[p].snap]
    /\ UNCHANGED <<fsVars, handler, att, fidsInUse, query, stale, sweep, front>>

\* ---------------------------------------------------------- GET /file/:fid
\* Lines 117-118: a download request for transfer f arrives.
FileArrive(p) ==
    /\ reader[p].pc \in {"idle", "done"}
    /\ \E f \in fidsInUse :
         reader' = [reader EXCEPT ![p] =
             [IdleReader EXCEPT !.pc = "exists", !.kind = "file", !.fid = f]]
    /\ UNCHANGED <<fsVars, handler, att, fidsInUse, query, stale, sweep, front>>

\* Lines 120-122: await fs.pathExists(finalPath); 410 when it is missing.
FileCheck(p) ==
    LET f == reader[p].fid IN
    /\ reader[p].kind = "file"
    /\ reader[p].pc = "exists"
    /\ reader' = [reader EXCEPT
          ![p].pc = IF bin[f].exists THEN "send" ELSE "done",
          ![p].resp = IF bin[f].exists THEN @ ELSE "gone410"]
    /\ UNCHANGED <<fsVars, handler, att, fidsInUse, query, stale, sweep, front>>

\* Line 124: res.download(finalPath) sends the bytes the file holds; a file
\* removed since the test is answered with an error.
FileSend(p) ==
    LET f == reader[p].fid IN
    /\ reader[p].kind = "file"
    /\ reader[p].pc = "send"
    /\ reader' = [reader EXCEPT
          ![p].pc = "done",
          ![p].resp = IF bin[f].exists THEN "download" ELSE "sendError",
          ![p].body = IF bin[f].exists THEN bin[f].data ELSE <<>>,
          ![p].snap = Snapshot(f)]
    /\ UNCHANGED <<fsVars, handler, att, fidsInUse, query, stale, sweep, front>>

\* The chunk requests of a client that uploads File(t): chunk i carries
\* Chunk(i), and every request declares the same total (upload.ts, lines
\* 43-60).
ReceiveFromClient(h) ==
    /\ Receive(h)
    /\ handler'[h].req.i < handler'[h].req.t
    /\ handler'[h].req.d = Chunk(handler'[h].req.i)
    /\ IF h = 1 THEN TRUE ELSE handler'[h].req.t = handler[1].req.t

\* Uploads by such clients, with status and download requests at any time.
NextRead ==
    \/ \E h \in Handlers : ReceiveFromClient(h)
    \/ \E h \in Handlers : OpenChunk(h)
    \/ \E h \in Handlers : WriteChunk(h)
    \/ \E h \in Handlers : CheckComplete(h)
    \/ \E a \in Handlers : AsmList(a)
    \/ \E a \in Handlers : AsmOpen(a)
    \/ \E a \in Handlers : AsmRead(a)
    \/ \E a \in Handlers : AsmWrite(a)
    \/ \E a \in Handlers : AsmFinish(a)
    \/ \E a \in Handlers : AsmRemoveDir(a)
    \/ \E a \in Handlers : AsmAbort(a)
    \/ \E p \in Readers : StatusArrive(p)
    \/ \E p \in Readers : StatusCheckBin(p)
    \/ \E p \in Readers : StatusCheckMeta(p)
    \/ \E p \in Readers : StatusCheckDir(p)
    \/ \E p \in Readers : FileArrive(p)
    \/ \E p \in Readers : FileCheck(p)
    \/ \E p \in Readers : FileSend(p)

SpecRead == Init /\ [][NextRead]_vars

\* A status request that has been answered and whose tests all saw the
\* storage its transfer had when it arrived.
AnsweredStable(p) ==
    /\ reader[p].kind = "status"
    /\ reader[p].pc = "done"
    /\ reader[p].stable

C12_StatusChangesNothing ==
    [][\A p \in Readers :
         (reader'[p] # reader[p] /\ reader'[p].kind = "status")
         => (fsVars' = fsVars /\ handler' = handler /\ att' = att)]_vars

\* A status request was answered while chunk writes or an assembly changed
\* the storage of its transfer between its tests.
C12_Witness ==
    \E p \in Readers :
        /\ reader[p].kind = "status"
        /\ reader[p].pc = "done"
        /\ ~reader[p].stable
        /\ \E a \in Handlers : att[a].pc = "run" /\ att[a].fid = reader[p].fid

\* C13: a download request is answered with a byte stream only when the
\* transfer is ready at that moment (artifact and marker exist).
C13_ServesOnlyReadyArtifact ==
    \A p \in Readers :
        (reader[p].kind = "file" /\ reader[p].resp = "download")
        => (reader[p].snap.bin /\ reader[p].snap.meta)

\* C14: when no handler and no assembly is in progress, a transfer's chunk
\* directory and its artifact do not both exist.
C14_DirectoryAndArtifactExclusive ==
    \A f \in Fids : Quiescent => ~(dir[f] /\ bin[f].exists)

\* ------------------------------- GET /upload with the query as received
\* !x on a query parameter (line 42): true when it is absent or empty.
Missing(p) == ~p.present \/ p.value = <<>>

IsDigit(c) == c \in {"0", "1", "2", "3", "4", "5", "6", "7", "8", "9"}
DigitValue(c) ==
    CASE c = "0" -> 0 [] c = "1" -> 1 [] c = "2" -> 2 [] c = "3" -> 3
      [] c = "4" -> 4 [] c = "5" -> 5 [] c = "6" -> 6 [] c = "7" -> 7
      [] c = "8" -> 8 [] c = "9" -> 9

RECURSIVE ParseDigits(_, _, _)
ParseDigits(s, acc, any) ==
    IF s = <<>> \/ ~IsDigit(Head(s)) THEN [nan |-> ~any, val |-> acc]
    ELSE ParseDigits(Tail(s), acc * 10 + DigitValue(Head(s)), TRUE)

\* parseInt(text, 10) (lines 46-47): leading blanks are skipped, a sign is
\* read, then the longest run of digits; what follows is ignored; NaN when
\* there is no digit.
RECURSIVE ParseInt(_)
ParseInt(s) ==
    IF s # <<>> /\ Head(s) = " " THEN ParseInt(Tail(s))
    ELSE IF s # <<>> /\ Head(s) \in {"-", "+"}
    THEN LET r == ParseDigits(Tail(s), 0, FALSE)
         IN [nan |-> r.nan, val |-> IF Head(s) = "-" THEN 0 - r.val ELSE r.val]
    ELSE ParseDigits(s, 0, FALSE)

Base64UrlAlphabet ==
    <<"A", "B", "C", "D", "E", "F", "G", "H", "I", "J", "K", "L", "M", "N", "O", "P",
      "Q", "R", "S", "T", "U", "V", "W", "X", "Y", "Z", "a", "b", "c", "d", "e", "f",
      "g", "h", "i", "j", "k", "l", "m", "n", "o", "p", "q", "r", "s", "t", "u", "v",
      "w", "x", "y", "z", "0", "1", "2", "3", "4", "5", "6", "7", "8", "9", "-", "_">>
Base64UrlValue(c) ==
    (CHOOSE k \in 1..Len(Base64UrlAlphabet) : Base64UrlAlphabet[k] = c) - 1

\* The bytes of this model by their value: a is 97, b is 98, "0" is 0.
ByteOf(n) == CASE n = 97 -> "a" [] n = 98 -> "b" [] n = 0 -> "0"

\* Buffer.from(d, 'base64url') (line 60): four characters give three
\* bytes, a rest of three gives two, a rest of two gives one.
\* Byte p of the result comes from the group of four characters it lies
\* in, the missing characters of the last group counting as zero bits.
Base64UrlDecode(s) ==
    LET v(k) == IF k <= Len(s) THEN Base64UrlValue(s[k]) ELSE 0
        group(g) == ((v(4 * g + 1) * 64 + v(4 * g + 2)) * 64 + v(4 * g + 3)) * 64
                    + v(4 * g + 4)
        rest == Len(s) % 4
        n == 3 * (Len(s) \div 4) + (IF rest = 3 THEN 2 ELSE IF rest = 2 THEN 1 ELSE 0)
    IN [p \in 1..n |->
          LET w == group((p - 1) \div 3)
          IN ByteOf(CASE (p - 1) % 3 = 0 -> w \div 65536
                      [] (p - 1) % 3 = 1 -> (w \div 256) % 256
                      [] (p - 1) % 3 = 2 -> w % 256)]

\* The query strings enumerated: each parameter absent or with one of the
\* texts above; h, when given, is the digest of the one-byte file a.
Queries(fs) ==
    {[fid |-> f, i |-> i, t |-> t, h |-> h, d |-> d] :
        f \in {Absent} \cup {Given(x) : x \in fs},
        i \in {Absent} \cup {Given(x) : x \in IndexTexts},
        t \in {Absent} \cup {Given(x) : x \in TotalTexts},
        h \in {Absent, Given(DeclaredDigest(1))},
        d \in {Absent} \cup {Given(x) : x \in PayloadTexts}}

\* Lines 40-60: the request arrives with query q; 400 when a parameter is
\* missing or a number does not parse, otherwise the directory is ensured
\* and the request goes on with the parsed index and total and the decoded
\* payload.
ReceiveQuery(h) ==
    /\ handler[h].pc = "idle"
    /\ IF h = 1 THEN TRUE ELSE handler[h - 1].pc # "idle"
    /\ \E q \in Queries(fidsInUse) :
         LET chunkIndex == ParseInt(q.i.value)
             totalChunks == ParseInt(q.t.value)
             seen == {g \in Handlers : InFlight(g)}
         IN
         /\ query' = [query EXCEPT ![h] = q]
         /\ IF ~q.fid.present \/ Missing(q.i) \/ Missing(q.t) \/ ~q.h.present \/ Missing(q.d)
            THEN /\ handler' = [handler EXCEPT ![h] =
                       [IdleHandler EXCEPT !.pc = "done", !.resp = "missing400", !.seen = seen]]
                 /\ UNCHANGED <<dir, stale>>
            ELSE IF chunkIndex.nan \/ totalChunks.nan
            THEN /\ handler' = [handler EXCEPT ![h] =
                       [IdleHandler EXCEPT !.pc = "done", !.resp = "invalid400", !.seen = seen]]
                 /\ UNCHANGED <<dir, stale>>
            ELSE /\ handler' = [handler EXCEPT ![h] =
                       [pc |-> "open",
                        req |-> [fid |-> q.fid.value, i |-> chunkIndex.val,
                                 t |-> totalChunks.val, h |-> q.h.value,
                                 d |-> Base64UrlDecode(q.d.value)],
                        resp |-> "none", fd |-> FALSE, seen |-> seen]]
                 /\ dir' = [dir EXCEPT ![q.fid.value] = TRUE]
                 /\ stale' = IF dir[q.fid.value] THEN stale
                             ELSE Touched(q.fid.value, "dir")
    /\ UNCHANGED <<chunks, bin, meta, att, fidsInUse, reader, sweep, front>>

NextInput ==
    \/ \E h \in Handlers : ReceiveQuery(h)
    \/ \E h \in Handlers : OpenChunk(h)
    \/ \E h \in Handlers : WriteChunk(h)
    \/ \E h \in Handlers : CheckComplete(h)
    \/ \E a \in Handlers : AsmList(a)
    \/ \E a \in Handlers : AsmOpen(a)
    \/ \E a \in Handlers : AsmRead(a)
    \/ \E a \in Handlers : AsmWrite(a)
    \/ \E a \in Handlers : AsmFinish(a)
    \/ \E a \in Handlers : AsmRemoveDir(a)
    \/ \E a \in Handlers : AsmAbort(a)

SpecInput == Init /\ [][NextInput]_vars

\* The text is a decimal number: an optional minus sign and digits only.
IsNumberText(s) ==
    LET body == IF s # <<>> /\ Head(s) = "-" THEN Tail(s) ELSE s
    IN body # <<>> /\ \A k \in 1..Len(body) : IsDigit(body[k])

AllPresent(q) ==
    q.fid.present /\ q.i.present /\ q.t.present /\ q.h.present /\ q.d.present

Rejected(h) == handler[h].resp \in {"missing400", "invalid400"}

\* C15: a request that lacks one of fid, i, t, h, d, or whose index or total
\* is not a number, is answered 400.
C15_InvalidRequestRejected ==
    \A h \in Handlers :
        (/\ Arrived(h)
         /\ \/ ~AllPresent(query[h])
            \/ ~IsNumberText(query[h].i.value)
            \/ ~IsNumberText(query[h].t.value))
        => Rejected(h)

\* C16: a request that is complete and numeric and carries a payload of
\* zero bytes, the first its transfer receives, is acknowledged as new.
C16_EmptyPayloadAccepted ==
    \A h \in Handlers :
        (/\ handler[h].pc = "done"
         /\ \A g \in Handlers \ {h} : ~Arrived(g)
         /\ AllPresent(query[h])
         /\ IsNumberText(query[h].i.value)
         /\ IsNumberText(query[h].t.value)
         /\ query[h].d.value = <<>>)
        => handler[h].resp = "new"

\* C17: every stored chunk has a non-negative index, and every request
\* acknowledged as new or starting an assembly declared a positive total.
C17_StoredChunksHaveValidIndexAndTotal ==
    /\ \A f \in Fids : \A j \in DOMAIN chunks[f] : j >= 0
    /\ \A h \in Handlers :
          (handler[h].resp = "new" \/ att[h].pc # "none") => handler[h].req.t > 0

\* C19: an assembly reads of every chunk the whole payload of a request
\* that wrote it, never the empty or partial content of a chunk file whose
\* write is still in flight.
C19_AssemblyReadsWholeChunks ==
    \A a \in Handlers : \A k \in 1..Len(att[a].bufs) :
        \E h \in Handlers :
            /\ Arrived(h)
            /\ handler[h].req.fid = att[a].fid
            /\ handler[h].req.i = att[a].files[k]
            /\ handler[h].req.d = att[a].bufs[k]

\* ------------------------------------------------- storage I/O failures
\* Line 63 rejects after the chunk file was created (the volume is full, the
\* device fails): the file keeps what was written so far, here nothing;
\* lines 69 and 81-83 answer 500.
WriteChunkFails(h) ==
    /\ handler[h].pc = "write"
    /\ handler' = [handler EXCEPT ![h].pc = "done", ![h].resp = "error500",
                                  ![h].fd = FALSE]
    /\ UNCHANGED <<fsVars, att, fidsInUse, reader, query, stale, sweep, front>>

\* Line 154 rejects (the read fails): assembleFile is rejected and line 76
\* logs the error; the stream created at line 149 stays open.
AsmReadFails(a) ==
    /\ att[a].pc = "run"
    /\ att[a].rd = "reading"
    /\ att' = [att EXCEPT ![a].rd = "aborted", ![a].outcome = "ioError"]
    /\ UNCHANGED <<fsVars, handler, fidsInUse, reader, query, stale, sweep, front>>

NextFail ==
    \/ \E h \in Handlers : Receive(h)
    \/ \E h \in Handlers : OpenChunk(h)
    \/ \E h \in Handlers : WriteChunk(h)
    \/ \E h \in Handlers : WriteChunkFails(h)
    \/ \E h \in Handlers : CheckComplete(h)
    \/ \E a \in Handlers : AsmList(a)
    \/ \E a \in Handlers : AsmOpen(a)
    \/ \E a \in Handlers : AsmRead(a)
    \/ \E a \in Handlers : AsmReadFails(a)
    \/ \E a \in Handlers : AsmWrite(a)
    \/ \E a \in Handlers : AsmFinish(a)
    \/ \E a \in Handlers : AsmRemoveDir(a)
    \/ \E a \in Handlers : AsmAbort(a)

SpecFail == Init /\ [][NextFail]_vars

\* C18: after the only request received so far was answered 500, no blob
\* is stored under its index and its transfer is not found.
C18_FailedWriteLeavesNoTrace ==
    \A h \in Handlers :
        LET r == handler[h].req IN
        (/\ handler[h].resp = "error500"
         /\ \A g \in Handlers \ {h} : ~Arrived(g))
        => (r.i \notin DOMAIN chunks[r.fid] /\ Status(r.fid) = "not_found")

\* C20: when the only assembly attempt of a transfer has aborted on an I/O
\* failure and nothing else is in progress, every chunk it listed is still
\* stored, no blob is left at the artifact location and the status is
\* in-progress.
C20_AbortedAssemblyLeavesNoArtifact ==
    \A a \in Handlers :
        LET f == att[a].fid IN
        (/\ Quiescent
         /\ att[a].pc = "done"
         /\ att[a].outcome = "ioError"
         /\ \A b \in Handlers \ {a} : att[b].pc = "none")
        => (/\ \A k \in 1..Len(att[a].files) : att[a].files[k] \in DOMAIN chunks[f]
            /\ ~bin[f].exists
            /\ Status(f) = "uploading_or_assembling")

\* ------------------------------------------------- the hourly cleanup job
Entries == Fids \X EntryKinds
Exists(e) ==
    CASE e[2] = "dir" -> dir[e[1]]
      [] e[2] = "bin" -> bin[e[1]].exists
      [] e[2] = "meta" -> meta[e[1]]
Old(e) == stale[e[1]][e[2]]
SweepEnded == sweep.pc \in {"idle", "done", "aborted"}

\* More than 24 hours pass without a change in the upload directory: every
\* entry is now older than the retention window. (A request, an assembly
\* and a run of the job take less than a day: none is in progress
\* meanwhile.)
DayPasses ==
    /\ SweepEnded
    /\ Quiescent
    /\ \E e \in Entries : Exists(e) /\ ~Old(e)
    /\ stale' = [f \in Fids |-> [k \in EntryKinds |-> Exists(<<f, k>>)]]
    /\ sweep' = NoSweep
    /\ UNCHANGED <<fsVars, handler, att, fidsInUse, reader, query, front>>

\* Lines 178-189: the job starts; now is taken and the upload directory is
\* listed.
SweepStart ==
    /\ SweepEnded
    /\ sweep' = [NoSweep EXCEPT !.pc = "stat",
                                !.todo = {e \in Entries : Exists(e)}]
    /\ UNCHANGED <<fsVars, handler, att, fidsInUse, reader, query, stale, front>>

\* SweepStat as it would be without the age test of line 183.
SweepStatIgnoringAge(e) ==
    /\ sweep.pc = "stat"
    /\ e \in sweep.todo
    /\ sweep' = IF ~Exists(e) THEN [sweep EXCEPT !.pc = "aborted"]
                ELSE [sweep EXCEPT !.pc = "remove", !.cur = e, !.foundOld = Old(e)]
    /\ UNCHANGED <<fsVars, handler, att, fidsInUse, reader, query, stale, front>>

\* Lines 182-183: await fs.stat of the next listed entry and the age test.
\* stat of an entry that is gone rejects: nothing catches it, the loop of
\* lines 190-192 ends there.
SweepStat(e) ==
    /\ sweep.pc = "stat"
    /\ e \in sweep.todo
    /\ sweep' = IF ~Exists(e) THEN [sweep EXCEPT !.pc = "aborted"]
                ELSE IF Old(e)
                THEN [sweep EXCEPT !.pc = "remove", !.cur = e, !.foundOld = TRUE]
                ELSE [sweep EXCEPT !.todo = @ \ {e}, !.cur = e, !.foundOld = FALSE]
    /\ UNCHANGED <<fsVars, handler, att, fidsInUse, reader, query, stale, front>>

\* fs.stat rejects for another reason (a permission error, an I/O error).
SweepStatFails(e) ==
    /\ sweep.pc = "stat"
    /\ e \in sweep.todo
    /\ sweep' = [sweep EXCEPT !.pc = "aborted"]
    /\ UNCHANGED <<fsVars, handler, att, fidsInUse, reader, query, stale, front>>

\* Line 184: await fs.remove of the entry found old.
SweepRemove ==
    LET f == sweep.cur[1]
        k == sweep.cur[2]
    IN
    /\ sweep.pc = "remove"
    /\ dir' = IF k = "dir" THEN [dir EXCEPT ![f] = FALSE] ELSE dir
    /\ chunks' = IF k = "dir" THEN [chunks EXCEPT ![f] = NoChunks] ELSE chunks
    /\ handler' = IF k = "dir"
                  THEN [h \in Handlers |->
                          IF handler[h].req.fid = f /\ handler[h].pc = "write"
                          THEN [handler[h] EXCEPT !.fd = FALSE] ELSE handler[h]]
                  ELSE handler
    /\ bin' = IF k = "bin" THEN [bin EXCEPT ![f] = NoBin] ELSE bin
    /\ att' = IF k = "bin" THEN UnlinkBin(f)
              ELSE IF k = "dir"
              THEN [a \in Handlers |->
                      IF att[a].fid = f /\ att[a].pc \in {"list", "run"}
                      THEN [att[a] EXCEPT !.swept = TRUE] ELSE att[a]]
              ELSE att
    /\ meta' = IF k = "meta" THEN [meta EXCEPT ![f] = FALSE] ELSE meta
    /\ stale' = Touched(f, k)
    /\ sweep' = [sweep EXCEPT !.pc = "stat", !.todo = @ \ {sweep.cur}]
    /\ UNCHANGED <<fidsInUse, reader, query, front>>

\* fs.remove rejects.
SweepRemoveFails ==
    /\ sweep.pc = "remove"
    /\ sweep' = [sweep EXCEPT !.pc = "aborted"]
    /\ UNCHANGED <<fsVars, handler, att, fidsInUse, reader, query, stale, front>>

\* The loop has gone through every listed entry.
SweepEnd ==
    /\ sweep.pc = "stat"
    /\ sweep.todo = {}
    /\ sweep' = [sweep EXCEPT !.pc = "done"]
    /\ UNCHANGED <<fsVars, handler, att, fidsInUse, reader, query, stale, front>>

\* The front end sends its chunk requests one at a time (upload.ts, lines
\* 54-75): a request arrives when the earlier ones have been answered. The
\* assembly a request started may still be running.
ReceiveInTurn(h) ==
    /\ \A g \in Handlers : ~InFlight(g)
    /\ ReceiveFromClient(h)

\* The uploads of a front end, days passing, and the cleanup job.
NextSweep ==
    \/ \E h \in Handlers : ReceiveInTurn(h)
    \/ \E h \in Handlers : OpenChunk(h)
    \/ \E h \in Handlers : WriteChunk(h)
    \/ \E h \in Handlers : CheckComplete(h)
    \/ \E a \in Handlers : AsmList(a)
    \/ \E a \in Handlers : AsmOpen(a)
    \/ \E a \in Handlers : AsmRead(a)
    \/ \E a \in Handlers : AsmWrite(a)
    \/ \E a \in Handlers : AsmFinish(a)
    \/ \E a \in Handlers : AsmRemoveDir(a)
    \/ \E a \in Handlers : AsmAbort(a)
    \/ DayPasses
    \/ SweepStart
    \/ \E e \in Entries : SweepStat(e)
    \/ SweepRemove
    \/ SweepEnd

SpecSweep == Init /\ [][NextSweep]_vars

\* The same, where fs.stat and fs.remove may also fail on an entry that is
\* there.
NextSweepFail ==
    \/ NextSweep
    \/ \E e \in Entries : SweepStatFails(e)
    \/ SweepRemoveFails

SpecSweepFail == Init /\ [][NextSweepFail]_vars

\* C21: when a run of the job has ended, after a failure on an entry or
\* not, no entry is still there and older than 24 hours.
C21_SweepSurvivesEntryFailure ==
    sweep.pc \in {"done", "aborted"}
    => \A e \in Entries : ~(Exists(e) /\ Old(e))

\* C22: a run of the job removes no entry that was modified within the last
\* 24 hours, and a run that went through its list has removed every listed
\* entry older than that.
C22_SweepDeletesExactlyTheOldEntries ==
    /\ [][(sweep.pc = "remove" /\ sweep'.pc = "stat") => Old(sweep.cur)]_vars
    /\ [](sweep.pc = "done" => \A e \in Entries : ~(Exists(e) /\ Old(e)))

\* Fewer chunks than the declared total t have been sent for transfer f by
\* a client that uploads File(t).
Incomplete(f, t) ==
    /\ WellFormed(f, t)
    /\ \E i \in 0..(t - 1) : \A h \in Handlers : Arrived(h) => handler[h].req.i # i

\* C23: while fewer chunks than the declared total have been sent for a
\* transfer, its status is never ready; it is in-progress when a chunk is
\* acknowledged as new; it leaves in-progress only by the step of the
\* cleanup job that removes its chunk directory, found older than 24
\* hours, and is then not found; and it leaves not-found only when a chunk
\* request arrives.
C23_IncompleteUploadStaysInProgressUntilSwept ==
    [][\A f \in Fids, t \in Totals :
         Incomplete(f, t)' =>
            /\ Status(f)' # "ready"
            /\ \A h \in Handlers :
                  (handler'[h].resp = "new" /\ handler[h].resp # "new"
                   /\ handler'[h].req.fid = f)
                  => Status(f)' = "uploading_or_assembling"
            /\ (Status(f) = "uploading_or_assembling" /\ Status(f)' # Status(f))
               => (/\ sweep.pc = "remove" /\ sweep.cur = <<f, "dir">> /\ sweep.foundOld
                   /\ sweep'.pc = "stat"
                   /\ Status(f)' = "not_found")
            /\ (Status(f) = "not_found" /\ Status(f)' # Status(f))
               => \E h \in Handlers : handler[h].pc = "idle" /\ handler'[h].pc = "open"]_vars

\* One chunk of two was acknowledged as new and the cleanup job has removed
\* the chunk directory since: the transfer is not found.
C23_Witness ==
    /\ Incomplete("f1", 2)
    /\ \E h \in Handlers : handler[h].resp = "new"
    /\ sweep.pc = "done" /\ sweep.cur = <<"f1", "dir">> /\ sweep.foundOld
    /\ Status("f1") = "not_found"

\* ------------------------------------------- digests in upper-case letters
\* The same digest written with upper-case hex letters, and equality of two
\* digests as hex numbers, whatever the case of their letters.
ToUpperCase(x) == [x EXCEPT !.upper = TRUE]
EqualIgnoringCase(x, y) == x.of = y.of

\* Lines 38-55 for the request of a client that uploads File(t) and writes
\* the digest in lower case or in upper case; h is taken from the query as
\* it is (line 40).
ReceiveAnyCase(h) ==
    /\ handler[h].pc = "idle"
    /\ IF h = 1 THEN TRUE ELSE handler[h - 1].pc # "idle"
    /\ \E q \in Requests(fidsInUse), up \in BOOLEAN :
         LET r == IF up THEN [q EXCEPT !.h = ToUpperCase(q.h)] ELSE q IN
         /\ r.i < r.t
         /\ r.d = Chunk(r.i)
         /\ handler' = [handler EXCEPT ![h] =
               [pc |-> "open", req |-> r, resp |-> "none", fd |-> FALSE,
                seen |-> {g \in Handlers : InFlight(g)}]]
         /\ dir' = [dir EXCEPT ![r.fid] = TRUE]
         /\ stale' = IF dir[r.fid] THEN stale ELSE Touched(r.fid, "dir")
    /\ UNCHANGED <<chunks, bin, meta, att, fidsInUse, reader, query, sweep, front>>

NextCase ==
    \/ \E h \in Handlers : ReceiveAnyCase(h)
    \/ \E h \in Handlers : OpenChunk(h)
    \/ \E h \in Handlers : WriteChunk(h)
    \/ \E h \in Handlers : CheckComplete(h)
    \/ \E a \in Handlers : AsmList(a)
    \/ \E a \in Handlers : AsmOpen(a)
    \/ \E a \in Handlers : AsmRead(a)
    \/ \E a \in Handlers : AsmWrite(a)
    \/ \E a \in Handlers : AsmFinish(a)
    \/ \E a \in Handlers : AsmRemoveDir(a)
    \/ \E a \in Handlers : AsmAbort(a)

SpecCase == Init /\ [][NextCase]_vars

\* C24: an assembly whose recomputed digest equals the expected digest but
\* for the case of the hex letters ends as a match, not as a mismatch.
C24_DigestComparedIgnoringCase ==
    \A a \in Handlers :
        (/\ att[a].outcome \in {"ready", "mismatch"}
         /\ EqualIgnoringCase(Sha256Hex(Concat(att[a].bufs)), att[a].hash))
        => att[a].outcome = "ready"

\* ---------------------------------------------- the front end: uploadFile
\* upload.ts, lines 4 and 8.
API_Base == "http://localhost:8080"
CHUNK_SIZE == 1024

\* Sizes in bytes of the files uploaded: empty, less than a chunk, whole
\* chunks, and a last chunk of one byte.
FileSizes == {0, 1, 1024, 1025, 2048, 2049}

\* Math.ceil(size / CHUNK_SIZE) and Math.min.
CeilDiv(n, d) == (n + d - 1) \div d
Min(x, y) == IF x < y THEN x ELSE y

\* The answers of GET /status (app.js, lines 98-109), and an answer with
\* state error, which line 91 of upload.ts provides for; a URL is the
\* sequence of the strings it is made of.
StatusAnswers ==
    {[state |-> "ready", downloadUrl |-> <<"/file/", f>>] : f \in Fids}
    \cup {[state |-> "uploading_or_assembling", downloadUrl |-> <<>>],
          [state |-> "not_found", downloadUrl |-> <<>>],
          [state |-> "error", downloadUrl |-> <<>>]}

\* The bytes of a file of that size, and file.slice(start, end).
FileBytes(size) == [p \in 1..size |-> (<<"a", "b", "0", "a", "a">>)[(p % 5) + 1]]
Slice(bytes, start, end) == SubSeq(bytes, start + 1, Min(end, Len(bytes)))

\* Lines 10-23, arrayBufferToBase64Url: btoa of the bytes (three bytes give
\* four characters of the standard alphabet, a rest of one or two bytes is
\* padded with =), then + becomes -, / becomes _ and the = at the end go.
ByteValue(b) == CASE b = "a" -> 97 [] b = "b" -> 98 [] b = "0" -> 0
Base64Alphabet == SubSeq(Base64UrlAlphabet, 1, 62) \o <<"+", "/">>
Btoa(bytes) ==
    LET v(k) == IF k <= Len(bytes) THEN ByteValue(bytes[k]) ELSE 0
        c(n) == Base64Alphabet[n + 1]
        n == 4 * ((Len(bytes) + 2) \div 3)
    IN [q \in 1..n |->
          LET g == (q - 1) \div 4
              b1 == v(3 * g + 1)
              b2 == v(3 * g + 2)
              b3 == v(3 * g + 3)
          IN CASE (q - 1) % 4 = 0 -> c(b1 \div 4)
               [] (q - 1) % 4 = 1 -> c((b1 % 4) * 16 + b2 \div 16)
               [] (q - 1) % 4 = 2 ->
                    IF 3 * g + 2 > Len(bytes) THEN "=" ELSE c((b2 % 16) * 4 + b3 \div 64)
               [] (q - 1) % 4 = 3 ->
                    IF 3 * g + 3 > Len(bytes) THEN "=" ELSE c(b3 % 64)]
RECURSIVE StripPadding(_)
StripPadding(text) ==
    IF text # <<>> /\ text[Len(text)] = "="
    THEN StripPadding(SubSeq(text, 1, Len(text) - 1)) ELSE text
ArrayBufferToBase64Url(bytes) ==
    LET b == Btoa(bytes)
    IN StripPadding([k \in 1..Len(b) |->
                        IF b[k] = "+" THEN "-" ELSE IF b[k] = "/" THEN "_" ELSE b[k]])

\* One call of uploadFile. reports: the arguments of the onProgress calls;
\* requests: the GET /upload requests sent; ok: the indices whose request
\* succeeded; failed: the index whose request failed (-1: none); timer: the
\* setInterval of line 80 is set; pending: the polls sent and not answered;
\* polls: their number so far; answers: the answers received. A request
\* holds d as sent and, as bytes, what Buffer.from(d, 'base64url') makes of
\* it at the server.
Report(t, n, st, url) ==
    [totalChunks |-> t, sentChunks |-> n, status |-> st, downloadUrl |-> url]
Uploading == front.pc \in {"loop", "await", "rejected", "polling"}

\* UploadFile as it would be with Math.floor in place of Math.ceil.
UploadFileRoundingDown(size, h, fid) ==
    /\ front.pc = "none"
    /\ front' = [pc |-> "loop", size |-> size, hash |-> h, fileId |-> fid,
                 totalChunks |-> size \div CHUNK_SIZE, i |-> 0,
                 reports |-> <<Report(size \div CHUNK_SIZE, 0, "uploading", <<>>)>>,
                 requests |-> <<>>, ok |-> {}, failed |-> -1,
                 timer |-> FALSE, pending |-> 0, polls |-> 0, answers |-> <<>>]
    /\ UNCHANGED <<fsVars, handler, att, fidsInUse, reader, query, stale, sweep>>

\* Lines 37-41: the call, up to the first report.
UploadFile(size, h, fid) ==
    /\ front.pc = "none"
    /\ front' = [pc |-> "loop", size |-> size, hash |-> h, fileId |-> fid,
                 totalChunks |-> CeilDiv(size, CHUNK_SIZE), i |-> 0,
                 reports |-> <<Report(CeilDiv(size, CHUNK_SIZE), 0, "uploading", <<>>)>>,
                 requests |-> <<>>, ok |-> {}, failed |-> -1,
                 timer |-> FALSE, pending |-> 0, polls |-> 0, answers |-> <<>>]
    /\ UNCHANGED <<fsVars, handler, att, fidsInUse, reader, query, stale, sweep>>

\* SendChunk as it would be with indices counted from 1.
SendChunkCountingFromOne ==
    LET start == front.i * CHUNK_SIZE
        end == Min(start + CHUNK_SIZE, front.size)
        base64Data == ArrayBufferToBase64Url(Slice(FileBytes(front.size), start, end))
    IN
    /\ front.pc = "loop"
    /\ front.i < front.totalChunks
    /\ front' = [front EXCEPT !.pc = "await",
                   !.requests = Append(@, [fid |-> front.fileId, i |-> front.i + 1,
                                           t |-> front.totalChunks, h |-> front.hash,
                                           d |-> base64Data,
                                           bytes |-> Base64UrlDecode(base64Data)])]
    /\ UNCHANGED <<fsVars, handler, att, fidsInUse, reader, query, stale, sweep>>

\* Lines 43-67: the next chunk is sliced, encoded and its request is sent.
SendChunk ==
    LET start == front.i * CHUNK_SIZE
        end == Min(start + CHUNK_SIZE, front.size)
        base64Data == ArrayBufferToBase64Url(Slice(FileBytes(front.size), start, end))
    IN
    /\ front.pc = "loop"
    /\ front.i < front.totalChunks
    /\ front' = [front EXCEPT !.pc = "await",
                   !.requests = Append(@, [fid |-> front.fileId, i |-> front.i,
                                           t |-> front.totalChunks, h |-> front.hash,
                                           d |-> base64Data,
                                           bytes |-> Base64UrlDecode(base64Data)])]
    /\ UNCHANGED <<fsVars, handler, att, fidsInUse, reader, query, stale, sweep>>

\* ChunkSucceeds as it would be if it reported the bytes sent so far.
ChunkSucceedsReportingBytes ==
    /\ front.pc = "await"
    /\ front' = [front EXCEPT !.pc = "loop", !.i = @ + 1, !.ok = @ \cup {front.i},
                   !.reports = Append(@, Report(front.totalChunks,
                                  Min((front.i + 1) * CHUNK_SIZE, front.size),
                                  "uploading", <<>>))]
    /\ UNCHANGED <<fsVars, handler, att, fidsInUse, reader, query, stale, sweep>>

\* Lines 67-68 and the i++ of line 43: the request succeeded.
ChunkSucceeds ==
    /\ front.pc = "await"
    /\ front' = [front EXCEPT !.pc = "loop", !.i = @ + 1, !.ok = @ \cup {front.i},
                   !.reports = Append(@, Report(front.totalChunks, front.i + 1,
                                                "uploading", <<>>))]
    /\ UNCHANGED <<fsVars, handler, att, fidsInUse, reader, query, stale, sweep>>

\* ChunkFails as it would be if the catch did not throw.
ChunkFailsSwallowed ==
    /\ front.pc = "await"
    /\ front' = [front EXCEPT !.pc = "loop", !.i = @ + 1, !.failed = front.i,
                   !.reports = Append(@, Report(front.totalChunks, front.i,
                                                "error", <<>>))]
    /\ UNCHANGED <<fsVars, handler, att, fidsInUse, reader, query, stale, sweep>>

\* Lines 69-74: the request failed; the error is reported and thrown.
ChunkFails ==
    /\ front.pc = "await"
    /\ front' = [front EXCEPT !.pc = "rejected", !.failed = front.i,
                   !.reports = Append(@, Report(front.totalChunks, front.i,
                                                "error", <<>>))]
    /\ UNCHANGED <<fsVars, handler, att, fidsInUse, reader, query, stale, sweep>>

\* Lines 78-98: the loop is over; assembling is reported, the interval is
\* set and the promise resolves.
StartPolling ==
    /\ front.pc = "loop"
    /\ front.i >= front.totalChunks
    /\ front' = [front EXCEPT !.pc = "polling", !.timer = TRUE,
                   !.reports = Append(@, Report(front.totalChunks, front.totalChunks,
                                                "assembling", <<>>))]
    /\ UNCHANGED <<fsVars, handler, att, fidsInUse, reader, query, stale, sweep>>

\* Lines 80-82: the interval fires and a status request is sent, whether
\* the earlier ones have been answered or not.
Poll ==
    /\ front.pc = "polling"
    /\ front.timer
    /\ front.polls < MaxPolls
    /\ front' = [front EXCEPT !.polls = @ + 1, !.pending = @ + 1]
    /\ UNCHANGED <<fsVars, handler, att, fidsInUse, reader, query, stale, sweep>>

\* PollAnswered as it would be if it reported the downloadUrl of the answer
\* as it is.
PollAnsweredRelativeUrl(ans) ==
    /\ front.pc = "polling"
    /\ front.pending > 0
    /\ front' = IF ans.state = "ready"
                THEN [front EXCEPT !.pending = @ - 1, !.answers = Append(@, ans),
                        !.timer = FALSE,
                        !.reports = Append(@, Report(front.totalChunks, front.totalChunks,
                                                     "ready", ans.downloadUrl))]
                ELSE [front EXCEPT !.pending = @ - 1, !.answers = Append(@, ans)]
    /\ UNCHANGED <<fsVars, handler, att, fidsInUse, reader, query, stale, sweep>>

\* PollAnswered as it would be if not_found ended the polling with an error
\* report.
PollAnsweredGivingUp(ans) ==
    /\ front.pc = "polling"
    /\ front.pending > 0
    /\ front' = IF ans.state = "ready"
                THEN [front EXCEPT !.pending = @ - 1, !.answers = Append(@, ans),
                        !.timer = FALSE,
                        !.reports = Append(@, Report(front.totalChunks, front.totalChunks,
                                                     "ready", <<API_Base>> \o ans.downloadUrl))]
                ELSE IF ans.state = "not_found"
                THEN [front EXCEPT !.pending = @ - 1, !.answers = Append(@, ans),
                        !.timer = FALSE,
                        !.reports = Append(@, Report(front.totalChunks, front.totalChunks,
                                                     "error", <<>>))]
                ELSE [front EXCEPT !.pending = @ - 1, !.answers = Append(@, ans)]
    /\ UNCHANGED <<fsVars, handler, att, fidsInUse, reader, query, stale, sweep>>

\* Lines 82-96: a status request is answered. ready clears the interval
\* and is reported; after any other answer (not_found, a 404, makes
\* axios.get reject) nothing is done.
PollAnswered(ans) ==
    /\ front.pc = "polling"
    /\ front.pending > 0
    /\ front' = IF ans.state = "ready"
                THEN [front EXCEPT !.pending = @ - 1, !.answers = Append(@, ans),
                        !.timer = FALSE,
                        !.reports = Append(@, Report(front.totalChunks, front.totalChunks,
                                                     "ready", <<API_Base>> \o ans.downloadUrl))]
                ELSE [front EXCEPT !.pending = @ - 1, !.answers = Append(@, ans)]
    /\ UNCHANGED <<fsVars, handler, att, fidsInUse, reader, query, stale, sweep>>

\* Lines 94-96: a status request gets no answer.
PollFails ==
    /\ front.pc = "polling"
    /\ front.pending > 0
    /\ front' = [front EXCEPT !.pending = @ - 1]
    /\ UNCHANGED <<fsVars, handler, att, fidsInUse, reader, query, stale, sweep>>

NextFront ==
    \/ \E size \in FileSizes, t \in Totals, fid \in Fids :
          UploadFile(size, DeclaredDigest(t), fid)
    \/ SendChunk
    \/ ChunkSucceeds
    \/ ChunkFails
    \/ StartPolling
    \/ Poll
    \/ \E ans \in StatusAnswers : PollAnswered(ans)
    \/ PollFails

SpecFront == Init /\ [][NextFront]_vars

\* C25: the k-th chunk request sent carries index k-1 and the fid, total
\* and digest of the call; it was sent after the requests of all smaller
\* indices succeeded, so at most one request is unanswered, and no more
\* than total requests are sent.
C25_ChunkRequestsSequentialAscending ==
    Uploading =>
        /\ Len(front.requests) <= front.totalChunks
        /\ \A k \in 1..Len(front.requests) :
              /\ front.requests[k].i = k - 1
              /\ front.requests[k].fid = front.fileId
              /\ front.requests[k].t = front.totalChunks
              /\ front.requests[k].h = front.hash
              /\ \A j \in 0..(k - 2) : j \in front.ok
        /\ Len(front.requests) - Cardinality(front.ok) <= 1

\* The three requests of a file of three chunks were sent and succeeded.
C25_Witness ==
    /\ Uploading
    /\ Len(front.requests) = 3
    /\ front.ok = {0, 1, 2}

\* C26: the first report is sentChunks 0 with status uploading, sentChunks
\* never decreases from one report to the next and lies in 0..totalChunks,
\* and assembling is reported only with sentChunks = totalChunks after the
\* requests of all indices succeeded.
C26_ProgressReportsMonotone ==
    Uploading =>
        /\ front.reports[1].sentChunks = 0
        /\ front.reports[1].status = "uploading"
        /\ \A k \in 1..Len(front.reports) :
              /\ front.reports[k].sentChunks \in 0..front.totalChunks
              /\ front.reports[k].totalChunks = front.totalChunks
              /\ k > 1 => front.reports[k - 1].sentChunks <= front.reports[k].sentChunks
              /\ front.reports[k].status = "assembling" =>
                    /\ front.reports[k].sentChunks = front.totalChunks
                    /\ front.ok = 0..(front.totalChunks - 1)

\* Assembling was reported for a file of two chunks.
C26_Witness ==
    /\ Uploading
    /\ front.totalChunks = 2
    /\ \E k \in 1..Len(front.reports) : front.reports[k].status = "assembling"

\* C27: ready is reported only in the step in which a poll is answered
\* ready, after assembling was reported, with the API base followed by the
\* downloadUrl of that answer; and after an answer other than ready, with
\* ready not reported so far, the interval stays set.
C27_ReadyOnlyAfterReadyPoll ==
    [][Uploading =>
         /\ \A k \in 1..Len(front'.reports) :
               (front'.reports[k].status = "ready" /\ k > Len(front.reports)) =>
                  /\ Len(front'.answers) = Len(front.answers) + 1
                  /\ front'.answers[Len(front'.answers)].state = "ready"
                  /\ front'.reports[k].downloadUrl =
                        <<API_Base>> \o front'.answers[Len(front'.answers)].downloadUrl
                  /\ \E j \in 1..Len(front.reports) : front.reports[j].status = "assembling"
         /\ (/\ Len(front'.answers) = Len(front.answers) + 1
             /\ front'.answers[Len(front'.answers)].state # "ready"
             /\ \A j \in 1..Len(front.reports) : front.reports[j].status # "ready")
            => front'.timer]_vars

\* A poll was answered uploading_or_assembling, a later one ready, and
\* ready was reported.
C27_Witness ==
    /\ Uploading
    /\ Len(front.answers) = 2
    /\ front.answers[1].state = "uploading_or_assembling"
    /\ front.answers[2].state = "ready"
    /\ front.reports[Len(front.reports)].status = "ready"

\* C28: once the request of index i has failed, the last report is error
\* with sentChunks = i, the promise is rejected, the request of index i is
\* the last one sent, and no poll is sent and no interval set.
C28_FailedChunkStopsUpload ==
    (Uploading /\ front.failed >= 0) =>
        /\ front.reports[Len(front.reports)] =
              Report(front.totalChunks, front.failed, "error", <<>>)
        /\ front.pc = "rejected"
        /\ Len(front.requests) = front.failed + 1
        /\ front.polls = 0
        /\ ~front.timer

\* The request of index 1 of a file of three chunks failed.
C28_Witness ==
    /\ Uploading
    /\ front.totalChunks = 3
    /\ front.failed = 1

\* --------------------------------------- the front end: calculateFileHash
\* hash.test.ts, line 233.
chunkSize == 1024 * 1024 * 2

\* Sizes in bytes of the files hashed: whole chunks, and whole chunks with a
\* last chunk of one byte, of half a chunk or of one byte less than a chunk.
HashedFileSizes ==
    {k * chunkSize + r : k \in 0..MaxWholeChunks,
                         r \in {0, 1, chunkSize \div 2, chunkSize - 1}}

\* The number currentChunk / chunks of line 248, kept as the pair of its
\* operands: with chunks = 0 the quotient is Infinity.
Quotient(n, d) == [num |-> n, den |-> d]
IsInfinity(q) == q.den = 0 /\ q.num > 0
InUnitInterval(q) == q.den > 0 /\ 0 <= q.num /\ q.num <= q.den
IsOne(q) == q.den > 0 /\ q.num = q.den
AtMost(p, q) ==
    IF IsInfinity(q) THEN TRUE
    ELSE IF IsInfinity(p) THEN FALSE
    ELSE p.num * q.den <= q.num * p.den

Hashing == front.pc \in {"reading", "resolved", "failed"}

\* Lines 231-237 and 260-266: the call, up to the first readAsArrayBuffer;
\* slice is the range of bytes being read.
CalculateFileHash(size) ==
    /\ front.pc = "none"
    /\ front' = [pc |-> "reading", size |-> size, chunks |-> CeilDiv(size, chunkSize),
                 currentChunk |-> 0, progress |-> <<>>,
                 slice |-> <<0, IF chunkSize >= size THEN size ELSE chunkSize>>]
    /\ UNCHANGED <<fsVars, handler, att, fidsInUse, reader, query, stale, sweep>>

\* Lines 239-256: reader.onload. The result, an ArrayBuffer, is an object
\* also when it is empty, so line 240 does not return.
OnLoad ==
    LET n == front.currentChunk + 1
        start == n * chunkSize
        end == IF start + chunkSize >= front.size THEN front.size ELSE start + chunkSize
    IN
    /\ front.pc = "reading"
    /\ front' = [front EXCEPT
                   !.currentChunk = n,
                   !.progress = Append(@, Quotient(n, front.chunks)),
                   !.pc = IF n < front.chunks THEN "reading" ELSE "resolved",
                   !.slice = IF n < front.chunks THEN <<start, end>> ELSE @]
    /\ UNCHANGED <<fsVars, handler, att, fidsInUse, reader, query, stale, sweep>>

\* Line 258: reader.onerror rejects the promise.
OnError ==
    /\ front.pc = "reading"
    /\ front' = [front EXCEPT !.pc = "failed"]
    /\ UNCHANGED <<fsVars, handler, att, fidsInUse, reader, query, stale, sweep>>

NextHash ==
    \/ \E size \in HashedFileSizes : CalculateFileHash(size)
    \/ OnLoad
    \/ OnError

SpecHash == Init /\ [][NextHash]_vars

\* C29: every progress value reported lies between 0 and 1, none is less
\* than the one before, and when the promise has resolved the last value
\* reported is 1.
C29_HashProgressWithinUnitInterval ==
    Hashing =>
        /\ \A k \in 1..Len(front.progress) :
              /\ InUnitInterval(front.progress[k])
              /\ k > 1 => AtMost(front.progress[k - 1], front.progress[k])
        /\ front.pc = "resolved" =>
              /\ Len(front.progress) > 0
              /\ IsOne(front.progress[Len(front.progress)])

\* ------------------------------------- assembleFile: the order of the names
\* Line 57: the name `${chunkIndex}.part` of the file of chunk n, as the
\* sequence of its characters.
Digits == <<"0", "1", "2", "3", "4", "5", "6", "7", "8", "9">>
RECURSIVE ToDecimal(_)
ToDecimal(n) ==
    IF n < 10 THEN <<Digits[n + 1]>>
    ELSE ToDecimal(n \div 10) \o <<Digits[(n % 10) + 1]>>
ChunkName(n) == ToDecimal(n) \o <<".", "p", "a", "r", "t">>

\* The code unit of a character of a chunk name.
CharCode(c) ==
    CASE c = "." -> 46
      [] IsDigit(c) -> 48 + DigitValue(c)
      [] c = "a" -> 97 [] c = "p" -> 112 [] c = "r" -> 114 [] c = "t" -> 116

\* The comparison of two names that sort() makes without a comparator:
\* by code units, a prefix first. Negative, zero or positive.
RECURSIVE ByName(_, _)
ByName(x, y) ==
    IF x = <<>> /\ y = <<>> THEN 0
    ELSE IF x = <<>> THEN -1
    ELSE IF y = <<>> THEN 1
    ELSE IF Head(x) # Head(y) THEN CharCode(Head(x)) - CharCode(Head(y))
    ELSE ByName(Tail(x), Tail(y))

\* ByParseInt as it would be if it compared the names themselves, as sort()
\* does without a comparator.
ByDefaultOrder(x, y) == ByName(x, y)

\* Line 147: the comparator (a, b) => parseInt(a) - parseInt(b).
ByParseInt(x, y) == ParseInt(x).val - ParseInt(y).val

\* Array.prototype.sort: the names in the order of the comparison, names
\* that compare equal staying in their order (by insertion from the left).
Compare(x, y, plain) == IF plain THEN ByName(x, y) ELSE ByParseInt(x, y)
RECURSIVE Insert(_, _, _)
Insert(x, sorted, plain) ==
    IF sorted = <<>> THEN <<x>>
    ELSE IF Compare(x, sorted[Len(sorted)], plain) >= 0 THEN Append(sorted, x)
    ELSE Append(Insert(x, SubSeq(sorted, 1, Len(sorted) - 1), plain), sorted[Len(sorted)])
RECURSIVE SortedPrefix(_, _, _)
SortedPrefix(names, k, plain) ==
    IF k = 0 THEN <<>> ELSE Insert(names[k], SortedPrefix(names, k - 1, plain), plain)
Sort(names, plain) == SortedPrefix(names, Len(names), plain)

\* The orders in which fs.readdir may list the n chunk files: the order of
\* the names, as most file systems give it, turned by any number of places,
\* or backwards.
Rotate(names, k) == [j \in 1..Len(names) |-> names[((j + k - 1) % Len(names)) + 1]]
Reverse(names) == [j \in 1..Len(names) |-> names[Len(names) + 1 - j]]
Listings(n) ==
    LET plain == Sort([j \in 1..n |-> ChunkName(j - 1)], TRUE)
    IN {Rotate(plain, k) : k \in 0..(n - 1)} \cup {Reverse(plain)}

\* What readFile gives for the file of that name: the chunk whose index
\* made the name.
ChunkStoredAs(name, n) == CHOOSE i \in 0..(n - 1) : ChunkName(i) = name

\* Lines 141-145: the n files of a transfer of n chunks are listed.
SortList ==
    /\ att[1].pc = "none"
    /\ \E n \in 1..MaxChunks : \E l \in Listings(n) :
          att' = [att EXCEPT ![1] = [pc |-> "listed", total |-> n, listing |-> l,
                                     files |-> l, written |-> <<>>]]
    /\ UNCHANGED <<fsVars, handler, fidsInUse, reader, query, stale, sweep, front>>

\* Line 147: files.sort with the comparator.
SortFiles ==
    /\ att[1].pc = "listed"
    /\ att' = [att EXCEPT ![1].pc = "sorted", ![1].files = Sort(@, FALSE)]
    /\ UNCHANGED <<fsVars, handler, fidsInUse, reader, query, stale, sweep, front>>

\* Lines 152-157: the next file in the order of files is read and written
\* to the stream; written is the sequence of the chunks written.
SortWrite ==
    /\ att[1].pc = "sorted"
    /\ Len(att[1].written) < Len(att[1].files)
    /\ att' = [att EXCEPT ![1].written =
                  Append(@, ChunkStoredAs(att[1].files[Len(@) + 1], att[1].total))]
    /\ UNCHANGED <<fsVars, handler, fidsInUse, reader, query, stale, sweep, front>>

\* Line 159: writeStream.end().
SortEnd ==
    /\ att[1].pc = "sorted"
    /\ Len(att[1].written) = Len(att[1].files)
    /\ att' = [att EXCEPT ![1].pc = "ended"]
    /\ UNCHANGED <<fsVars, handler, fidsInUse, reader, query, stale, sweep, front>>

NextSort ==
    \/ SortList
    \/ SortFiles
    \/ SortWrite
    \/ SortEnd

SpecSort == Init /\ [][NextSort]_vars

\* C30: the chunks are written in ascending order of their indices: the
\* k-th chunk written is chunk k-1, whatever order the directory listing
\* gave, also with more than ten chunks.
C30_ChunksWrittenInNumericOrder ==
    att[1].pc \in {"sorted", "ended"} =>
        /\ \A k \in 1..Len(att[1].written) : att[1].written[k] = k - 1
        /\ att[1].pc = "ended" => Len(att[1].written) = att[1].total

\* Twelve chunks listed in the order of their names, 10.part and 11.part
\* before 2.part, were all written.
C30_Witness ==
    /\ att[1].pc = "ended"
    /\ att[1].total = 12
    /\ att[1].listing[3] = ChunkName(10)
    /\ att[1].listing[5] = ChunkName(2)
    /\ Len(att[1].written) = 12

\* ------------------------------------------------ assembleFile: the recount
\* C31: the step in which an assembly finds, on listing the directory
\* again, another number of chunks than its total changes no directory, no
\* chunk, no artifact and no marker and ends the attempt, which has opened
\* no stream and takes no further step.
C31_IncompleteAttemptTouchesNothing ==
    [][\A a \in Handlers :
         /\ (att'[a].outcome = "incomplete" /\ att[a].outcome # "incomplete")
            => (/\ UNCHANGED fsVars
                /\ att[a].pc = "list"
                /\ dir[att[a].fid]
                /\ Cardinality(DOMAIN chunks[att[a].fid]) # att[a].total)
         /\ att[a].outcome = "incomplete"
            => (/\ att'[a].pc = "done" /\ ~att'[a].opened
                /\ att'[a].bufs = <<>> /\ att'[a].outcome = "incomplete")]_vars

\* An attempt ended as incomplete while the chunk directory holds chunks.
C31_Witness ==
    \E a \in Handlers :
        /\ att[a].outcome = "incomplete"
        /\ dir[att[a].fid]
        /\ DOMAIN chunks[att[a].fid] # {}

\* ------------------------------------- concurrent writes of different chunks
\* The requests received so far are for pairwise different indices.
DifferentIndices ==
    \A h, g \in Handlers :
        (Arrived(h) /\ Arrived(g) /\ h # g) => handler[h].req.i # handler[g].req.i

\* C32: when a client uploads File(t) with one request per index, in any
\* interleaving, every request answered is acknowledged as new and, as long
\* as the chunk directory is there, the chunk of an acknowledged request
\* holds the payload of that request.
C32_ConcurrentWritesDoNotInterfere ==
    \A t \in Totals :
        (WellFormed("f1", t) /\ DifferentIndices) =>
            \A h \in Handlers :
                handler[h].pc = "done" =>
                    /\ handler[h].resp = "new"
                    /\ dir["f1"] =>
                          /\ handler[h].req.i \in DOMAIN chunks["f1"]
                          /\ chunks["f1"][handler[h].req.i] = handler[h].req.d

\* ------------------------------- the cleanup job during an assembly attempt
\* C33: an assembly attempt during which the cleanup job removed the chunk
\* directory of its transfer does not end by publishing the artifact: it is
\* still running, or it ended as incomplete or with an I/O error.
C33_SweptAssemblyPublishesNothing ==
    \A a \in Handlers :
        att[a].swept => att[a].outcome \in {"none", "incomplete", "ioError"}

\* ------------------------------------------------- uploadFile: the chunking
\* C34: the k-th request carries, once decoded by the server, the bytes
\* 1024*(k-1) up to min(1024*k, s) of the file of s bytes and declares the
\* least t with 1024*t >= s; when all requests are sent there are t of
\* them and their bytes joined in index order are the file; a file of
\* 1024 bytes is sent as one chunk with t = 1.
C34_ChunksPartitionTheFile ==
    Uploading =>
        LET s == front.size
            file == FileBytes(s)
            t == CHOOSE n \in 0..s : 1024 * n >= s /\ (n = 0 \/ 1024 * (n - 1) < s)
        IN
        /\ \A k \in 1..Len(front.requests) :
              /\ front.requests[k].t = t
              /\ front.requests[k].bytes =
                    [p \in 1..((IF 1024 * k < s THEN 1024 * k ELSE s) - 1024 * (k - 1)) |->
                        file[1024 * (k - 1) + p]]
        /\ front.pc = "polling" =>
              /\ Len(front.requests) = t
              /\ Concat([k \in 1..Len(front.requests) |-> front.requests[k].bytes]) = file
        /\ (s = 1024 /\ front.pc = "polling") =>
              (Len(front.requests) = 1 /\ front.requests[1].t = 1)

\* A file of 2049 bytes was sent whole: three requests, the last of one
\* byte.
C34_Witness ==
    /\ Uploading
    /\ front.pc = "polling"
    /\ front.size = 2049
    /\ Len(front.requests) = 3
    /\ Len(front.requests[3].bytes) = 1

\* --------------------------------------- chunk requests after the artifact
\* C35: once GET /status answers ready for a transfer, no step of a chunk
\* request or of an assembly (no cleanup job runs here) makes it answer
\* anything else or changes the bytes of the artifact.
C35_ReadyIsStable ==
    [][\A f \in Fids :
         Status(f) = "ready" =>
            (Status(f)' = "ready" /\ bin'[f].data = bin[f].data)]_vars

\* -------------------------------------------- chunks that are sent again
\* C36: the step that answers a chunk request with 'exists' ends the
\* request and changes nothing in storage and no assembly; that request
\* never starts an assembly. So when the only assembly attempt of a
\* transfer has aborted with its chunks all stored, and chunks of it were
\* sent again and answered 'exists', the chunks are still stored, there is
\* no marker and the status is in-progress.
C36_ExistingChunkStartsNoAssembly ==
    /\ [][\A h \in Handlers :
            (handler'[h].resp = "exists" /\ handler[h].resp # "exists")
            => (/\ handler'[h].pc = "done"
                /\ att' = att
                /\ UNCHANGED fsVars)]_vars
    /\ [](\A h \in Handlers : handler[h].resp = "exists" => att[h].pc = "none")
    /\ [](\A a \in Handlers :
            LET f == att[a].fid IN
            (/\ att[a].pc = "done" /\ att[a].outcome = "ioError"
             /\ \A b \in Handlers \ {a} : att[b].pc = "none"
             /\ \A h \in Handlers : handler[h].pc \in {"idle", "done"}
             /\ \A h \in Handlers : Arrived(h) =>
                   (handler[h].req.fid = f /\ handler[h].resp \in {"new", "exists"})
             /\ \E h \in Handlers : handler[h].resp = "exists")
            => (/\ \A k \in 1..Len(att[a].files) : att[a].files[k] \in DOMAIN chunks[f]
                /\ ~meta[f]
                /\ Status(f) = "uploading_or_assembling"))

\* The assembly of a one-chunk transfer aborted; the chunk was sent again
\* and answered 'exists'.
C36_Witness ==
    /\ att[1].pc = "done" /\ att[1].outcome = "ioError"
    /\ handler[2].pc = "done" /\ handler[2].resp = "exists"
    /\ handler[2].req.i = handler[1].req.i
    /\ att[2].pc = "none"
    /\ Status("f1") = "uploading_or_assembling"

\* ------------------------------------------ uploadFile: the end of polling
\* C37: after all chunks were sent, the interval is cleared in a step if
\* and only if that step receives an answer with state ready; a step that
\* receives another answer, or in which a poll fails, leaves the interval
\* and the reports as they are; and no error is ever reported once
\* assembling was.
C37_PollingEndsOnlyOnReady ==
    /\ [][(Uploading /\ front.pc = "polling") =>
            LET answered == Len(front'.answers) = Len(front.answers) + 1
                ready == answered /\ front'.answers[Len(front'.answers)].state = "ready"
            IN
            /\ (front.timer /\ ~front'.timer) => ready
            /\ ready => ~front'.timer
            /\ (front'.pending < front.pending /\ ~ready)
               => (front'.timer = front.timer /\ front'.reports = front.reports)]_vars
    /\ []((Uploading /\ front.pc = "polling") =>
            \A k \in 1..Len(front.reports) : front.reports[k].status # "error")

\* Every poll allowed was sent; one was answered not_found and one failed;
\* the interval is still set and the last report is assembling.
C37_Witness ==
    /\ Uploading
    /\ front.pc = "polling"
    /\ front.polls = MaxPolls
    /\ front.pending = 0
    /\ \E k \in 1..Len(front.answers) : front.answers[k].state = "not_found"
    /\ Len(front.answers) < front.polls
    /\ front.timer
    /\ front.reports[Len(front.reports)].status = "assembling"

\* --------------------------------------------- identifiers and their paths
\* An identifier as the query gives it, split at its slashes, and
\* UPLOAD_DIR (line 10) likewise.
FidTexts == {<<"f1">>, <<"f2">>, <<".", "f1">>, <<"f2", "..", "f1">>}
UPLOAD_DIR == <<"tmp", "uploads">>

\* path.join: the segments are joined and the result is normalised; an
\* empty segment and "." are dropped, ".." drops the segment before it.
RECURSIVE Normalize(_, _)
Normalize(done, segs) ==
    IF segs = <<>> THEN done
    ELSE IF Head(segs) \in {"", "."} THEN Normalize(done, Tail(segs))
    ELSE IF Head(segs) = ".." /\ done # <<>> /\ done[Len(done)] # ".."
    THEN Normalize(SubSeq(done, 1, Len(done) - 1), Tail(segs))
    ELSE Normalize(Append(done, Head(segs)), Tail(segs))
PathJoin(base, segs) == Normalize(<<>>, base \o segs)

\* The transfer whose chunk directory lies at that path.
StoredAt(p) == CHOOSE f \in Fids : p = UPLOAD_DIR \o <<f>>

\* Lines 40-55 for a request whose fid is one of the texts above: fileDir
\* is path.join(UPLOAD_DIR, fid) (line 54). query keeps the text.
ReceiveText(h) ==
    /\ handler[h].pc = "idle"
    /\ IF h = 1 THEN TRUE ELSE handler[h - 1].pc # "idle"
    /\ \E x \in FidTexts, q \in Requests({"f1"}) :
         LET r == [q EXCEPT !.fid = StoredAt(PathJoin(UPLOAD_DIR, x))] IN
         /\ handler' = [handler EXCEPT ![h] =
               [pc |-> "open", req |-> r, resp |-> "none", fd |-> FALSE,
                seen |-> {g \in Handlers : InFlight(g)}]]
         /\ query' = [query EXCEPT ![h].fid = Given(x)]
         /\ dir' = [dir EXCEPT ![r.fid] = TRUE]
         /\ stale' = IF dir[r.fid] THEN stale ELSE Touched(r.fid, "dir")
    /\ UNCHANGED <<chunks, bin, meta, att, fidsInUse, reader, sweep, front>>

NextPath ==
    \/ \E h \in Handlers : ReceiveText(h)
    \/ \E h \in Handlers : OpenChunk(h)
    \/ \E h \in Handlers : WriteChunk(h)
    \/ \E h \in Handlers : CheckComplete(h)
    \/ \E a \in Handlers : AsmList(a)
    \/ \E a \in Handlers : AsmOpen(a)
    \/ \E a \in Handlers : AsmRead(a)
    \/ \E a \in Handlers : AsmWrite(a)
    \/ \E a \in Handlers : AsmFinish(a)
    \/ \E a \in Handlers : AsmRemoveDir(a)
    \/ \E a \in Handlers : AsmAbort(a)

SpecPath == Init /\ [][NextPath]_vars

\* C38: no request sees what a request with another identifier stored: a
\* chunk request is answered 'exists' only when another request with the
\* same identifier and the same index was received.
C38_TransfersAreIsolated ==
    \A h \in Handlers :
        handler[h].resp = "exists" =>
            \E g \in Handlers \ {h} :
                /\ Arrived(g)
                /\ query[g].fid = query[h].fid
                /\ handler[g].req.i = handler[h].req.i

\* ------------------------------------------------- who writes the marker
\* C39: the marker of a transfer appears only in the step of an assembly
\* attempt of that transfer that has read all chunks it listed, whose
\* stream has written all of them, and whose recomputed digest equals the
\* digest it was called with; every other step leaves every marker as it
\* is.
C39_MarkerOnlyByMatchingAssembly ==
    [][\A f \in Fids :
         meta'[f] # meta[f] =>
            /\ meta'[f]
            /\ \E a \in Handlers :
                  /\ att[a].fid = f
                  /\ att[a].pc = "run" /\ att'[a].pc = "rmdir"
                  /\ att[a].rd = "ended"
                  /\ att[a].w = Len(att[a].bufs)
                  /\ Len(att[a].bufs) = att[a].total
                  /\ Sha256Hex(Concat(att[a].bufs)) = att[a].hash
                  /\ \A g \in Fids \ {f} : meta'[g] = meta[g]]_vars

\* An assembly ended in a mismatch, and the marker of another attempt of the
\* transfer, whose digest matched, is there.
C39_Witness ==
    /\ meta["f1"]
    /\ \E a, b \in Handlers :
          /\ att[a].outcome = "ready"
          /\ att[b].outcome = "mismatch"

====
